---------------------------- MODULE Spec2Model ----------------------------
(***************************************************************************)
(* Model of the VEX V5 robot program.                                      *)
(*                                                                         *)
(* Spec: the pure calculation helpers, DriveTrain (tank/arcade mixing,     *)
(* clamp, deadband), IntakeController and RampController (motor state to   *)
(* signed power) and PneumaticController.  The helpers are static,         *)
(* stateless functions.  Each one is an operator computed the way its C++  *)
(* body computes it; a behaviour of Spec is one invocation: Init draws the *)
(* function and its arguments, the function's action runs the body and     *)
(* records what it returns.                                                *)
(*                                                                         *)
(* C++ `int` is a fixed-width two's-complement integer.  Signed overflow   *)
(* is undefined behaviour; it is modelled as a choice between the two      *)
(* outcomes builds produce: the wrapped value, or a trap that aborts the   *)
(* call (overflow-checked builds).                                         *)
(*                                                                         *)
(* RobotSpec: main, vexcodeInit, autonomous and the usercontrol loop, one  *)
(* step per section of the loop body; AutonomousSpec adds the fairness of  *)
(* a started autonomous callback.                                          *)
(*                                                                         *)
(* DeploymentSpec: the single-file bundle (vexcode_single_file), its own   *)
(* copies of the classes and of main.cpp, run beside the modular program   *)
(* on the same invocation and the same controller samples.                 *)
(***************************************************************************)
EXTENDS Integers, FiniteSets, Sequences, TLC

VARIABLES
    pc,     \* "call": arguments passed, body not run; "return"; "trap"
    call,   \* the invocation: [fn |-> name, <parameter> |-> value, ...]
    ret     \* what the invocation returned / wrote to its output parameters

\* The robot program (main, vexcodeInit, usercontrol)
VARIABLES
    at,                     \* position of the program
    sampled,                \* controller values read so far in this loop iteration
    prevToggleSample,       \* history: Button A as read in the previous iteration
    LeftDrive,              \* last command given to each motor (group) ...
    RightDrive,
    IntakeMotor,
    RampMotor,
    FullPowerRampMotor,
    Piston1,                \* ... and to each piston
    Piston2,
    currentHeight,
    lastToggleButtonState,
    issued,                 \* the device calls made so far by the running callback
                            \* (in usercontrol: by the current iteration), in order
    risingEdgeParity        \* history: an odd number of released-to-pressed changes
                            \* in the Button A samples of the finished iterations

\* The single-file bundle, run on the same invocation and the same samples
VARIABLES
    bundle                  \* its pc / ret, its devices, globals and issued calls

callVars == <<pc, call, ret>>

robotVars ==
    <<at, sampled, prevToggleSample, LeftDrive, RightDrive, IntakeMotor, RampMotor,
      FullPowerRampMotor, Piston1, Piston2, currentHeight, lastToggleButtonState,
      issued, risingEdgeParity>>

vars == <<callVars, robotVars, bundle>>

---------------------------------------------------------------------------
(* Bounds of the model *)

\* width of `int` in bits
IntBits == 16
\* stick / level / value arguments range over -MaxInput..MaxInput ...
MaxInput == 150
\* ... and over the EdgeWidth+1 values at each end of the int range
EdgeWidth == 1
\* clamp bounds other than -100/100 and the int limits: -MaxBound..MaxBound
MaxBound == 2
\* deadband thresholds: -MaxDeadband..MaxDeadband and the int limits
MaxDeadband == 10
\* stick positions read in usercontrol: the ends, the centre and the values
\* within StickMargin of the deadband threshold, on both sides of zero
StickMargin == 1

---------------------------------------------------------------------------
(* Machine integers *)

INT_MAX == 2^(IntBits - 1) - 1
INT_MIN == -(2^(IntBits - 1))

Representable(n) == INT_MIN <= n /\ n <= INT_MAX

\* two's-complement wrap of a mathematical integer into the int range
Wrap(n) == ((n - INT_MIN) % (2^IntBits)) + INT_MIN

\* result of an int operation whose mathematical value is n
IntResult(n) ==
    IF Representable(n)
    THEN {[trap |-> FALSE, val |-> n]}
    ELSE {[trap |-> FALSE, val |-> Wrap(n)], [trap |-> TRUE, val |-> 0]}

\* a + b, a - b and -a on int
IntAdd(a, b) == IntResult(a + b)
IntSub(a, b) == IntResult(a - b)
IntNeg(a) == IntResult(0 - a)

---------------------------------------------------------------------------
(* Enumerations and literals of the source *)

STOP == 0
FORWARD == 1
REVERSE == -1
MotorState == {STOP, FORWARD, REVERSE}

\* the motor power range every clamp call of the source uses
MinPower == -100
MaxPower == 100

---------------------------------------------------------------------------
(* DriveTrain *)

clamp_MissingUpper(value, min, max) ==
    IF value < min THEN min ELSE value

clamp_MissingLower(value, min, max) ==
    IF value > max THEN max ELSE value

clamp(value, min, max) ==
    IF value < min THEN min
    ELSE IF value > max THEN max
    ELSE value

calculateTankDrive_Swapped(leftStickInput, rightStickInput) ==
    [leftPower  |-> clamp(rightStickInput, MinPower, MaxPower),
     rightPower |-> clamp(leftStickInput, MinPower, MaxPower)]

calculateTankDrive(leftStickInput, rightStickInput) ==
    [leftPower  |-> clamp(leftStickInput, MinPower, MaxPower),
     rightPower |-> clamp(rightStickInput, MinPower, MaxPower)]

\* outcome of a call that was aborted by an overflow trap
Trapped == [trap |-> TRUE]

calculateArcadeDrive_ClampInputsFirst(forwardInput, turnInput) ==
    LET f == clamp(forwardInput, MinPower, MaxPower)
        t == clamp(turnInput, MinPower, MaxPower)
    IN  {[trap |-> FALSE,
          leftPower  |-> clamp(f + t, MinPower, MaxPower),
          rightPower |-> clamp(f - t, MinPower, MaxPower)]}

calculateArcadeDrive_ClampDifferential(forwardInput, turnInput) ==
    LET t == clamp(turnInput, MinPower, MaxPower)
    IN  {IF s.trap \/ d.trap
         THEN Trapped
         ELSE [trap |-> FALSE,
               leftPower  |-> clamp(s.val, MinPower, MaxPower),
               rightPower |-> clamp(d.val, MinPower, MaxPower)]
         : s \in IntAdd(forwardInput, t), d \in IntSub(forwardInput, t)}

\* the clamping of the two sums is left out
calculateArcadeDrive_Unclamped(forwardInput, turnInput) ==
    {IF s.trap \/ d.trap
     THEN Trapped
     ELSE [trap |-> FALSE, leftPower |-> s.val, rightPower |-> d.val]
     : s \in IntAdd(forwardInput, turnInput),
       d \in IntSub(forwardInput, turnInput)}

\* v * 100 / m as C++ int division computes it (m > 0)
ScaleTo100(v, m) ==
    IF v >= 0 THEN (v * 100) \div m ELSE 0 - (((0 - v) * 100) \div m)

\* both sides are scaled down together when one exceeds the range
calculateArcadeDrive_Normalised(forwardInput, turnInput) ==
    {IF s.trap \/ d.trap
     THEN Trapped
     ELSE LET l == IF s.val < 0 THEN 0 - s.val ELSE s.val
              r == IF d.val < 0 THEN 0 - d.val ELSE d.val
              m == IF l > r THEN l ELSE r
          IN  IF m > 100
              THEN [trap |-> FALSE,
                    leftPower  |-> clamp(ScaleTo100(s.val, m), MinPower, MaxPower),
                    rightPower |-> clamp(ScaleTo100(d.val, m), MinPower, MaxPower)]
              ELSE [trap |-> FALSE, leftPower |-> s.val, rightPower |-> d.val]
     : s \in IntAdd(forwardInput, turnInput),
       d \in IntSub(forwardInput, turnInput)}

\* the set of outcomes: one when sum and difference are representable
calculateArcadeDrive(forwardInput, turnInput) ==
    {IF s.trap \/ d.trap
     THEN Trapped
     ELSE [trap |-> FALSE,
           leftPower  |-> clamp(s.val, MinPower, MaxPower),
           rightPower |-> clamp(d.val, MinPower, MaxPower)]
     : s \in IntAdd(forwardInput, turnInput),
       d \in IntSub(forwardInput, turnInput)}

applyDeadband_Inclusive(input, deadband) ==
    {IF n.trap
     THEN Trapped
     ELSE [trap |-> FALSE,
           value |-> IF input >= n.val /\ input <= deadband THEN 0 ELSE input]
     : n \in IntNeg(deadband)}

\* the set of outcomes: one unless -deadband overflows
applyDeadband(input, deadband) ==
    {IF n.trap
     THEN Trapped
     ELSE [trap |-> FALSE,
           value |-> IF input > n.val /\ input < deadband THEN 0 ELSE input]
     : n \in IntNeg(deadband)}

---------------------------------------------------------------------------
(* IntakeController *)

IntakeController_clampPowerLevel_Symmetric(powerLevel) ==
    IF powerLevel < -100 THEN -100
    ELSE IF powerLevel > 100 THEN 100
    ELSE powerLevel

IntakeController_clampPowerLevel(powerLevel) ==
    IF powerLevel < 0 THEN 0
    ELSE IF powerLevel > 100 THEN 100
    ELSE powerLevel

IntakeController_calculateIntakePower_NoStop(state, powerLevel) ==
    LET clampedPower == IntakeController_clampPowerLevel(powerLevel)
    IN  IF state = FORWARD THEN clampedPower ELSE -clampedPower

IntakeController_calculateIntakePower(state, powerLevel) ==
    IF state = STOP THEN 0
    ELSE LET clampedPower == IntakeController_clampPowerLevel(powerLevel)
         IN  IF state = FORWARD THEN clampedPower
             ELSE IF state = REVERSE THEN -clampedPower
             ELSE 0

IntakeController_calculateRampPower_Unclamped(state, powerLevel) ==
    IF state = STOP THEN 0
    ELSE IF state = FORWARD THEN powerLevel
    ELSE IF state = REVERSE THEN -powerLevel
    ELSE 0

IntakeController_calculateRampPower(state, powerLevel) ==
    IF state = STOP THEN 0
    ELSE LET clampedPower == IntakeController_clampPowerLevel(powerLevel)
         IN  IF state = FORWARD THEN clampedPower
             ELSE IF state = REVERSE THEN -clampedPower
             ELSE 0

---------------------------------------------------------------------------
(* RampController *)

RampController_clampPowerLevel_Symmetric(powerLevel) ==
    IF powerLevel < -100 THEN -100
    ELSE IF powerLevel > 100 THEN 100
    ELSE powerLevel

RampController_clampPowerLevel(powerLevel) ==
    IF powerLevel < 0 THEN 0
    ELSE IF powerLevel > 100 THEN 100
    ELSE powerLevel

RampController_calculateRampPower_FullPowerFirst(state, useFullPower, powerLevel) ==
    IF useFullPower
    THEN IF state = FORWARD THEN 100 ELSE -100
    ELSE IF state = STOP THEN 0
    ELSE LET clampedPower == RampController_clampPowerLevel(powerLevel)
         IN  IF state = FORWARD THEN clampedPower ELSE -clampedPower

RampController_calculateRampPower_LevelInFullPower(state, useFullPower, powerLevel) ==
    IF state = STOP THEN 0
    ELSE LET clampedPower == RampController_clampPowerLevel(powerLevel)
         IN  IF state = FORWARD THEN clampedPower
             ELSE IF state = REVERSE THEN -clampedPower
             ELSE 0

RampController_calculateRampPower(state, useFullPower, powerLevel) ==
    IF state = STOP THEN 0
    ELSE IF useFullPower /\ state = FORWARD THEN 100
    ELSE IF useFullPower /\ state = REVERSE THEN -100
    ELSE LET clampedPower == RampController_clampPowerLevel(powerLevel)
         IN  IF state = FORWARD THEN clampedPower
             ELSE IF state = REVERSE THEN -clampedPower
             ELSE 0

---------------------------------------------------------------------------
(* PneumaticController *)

LOW == 0
HIGH == 1
HeightPosition == {LOW, HIGH}

calculatePistonState_Inverted(position) == position = LOW

calculatePistonState(position) == position = HIGH

getOppositePosition_Inverted(position) ==
    IF position = LOW THEN LOW ELSE HIGH

getOppositePosition(position) ==
    IF position = LOW THEN HIGH ELSE LOW

togglePosition_AlwaysHigh(currentPosition) == HIGH

togglePosition(currentPosition) == getOppositePosition(currentPosition)

---------------------------------------------------------------------------
(* The single-file deployment bundle: its copies of the four classes *)

SingleFile_clamp(value, min, max) ==
    IF value < min THEN min
    ELSE IF value > max THEN max
    ELSE value

SingleFile_calculateTankDrive(leftStickInput, rightStickInput) ==
    [leftPower  |-> SingleFile_clamp(leftStickInput, -100, 100),
     rightPower |-> SingleFile_clamp(rightStickInput, -100, 100)]

SingleFile_calculateArcadeDrive(forwardInput, turnInput) ==
    {IF s.trap \/ d.trap
     THEN Trapped
     ELSE [trap |-> FALSE,
           leftPower  |-> SingleFile_clamp(s.val, -100, 100),
           rightPower |-> SingleFile_clamp(d.val, -100, 100)]
     : s \in IntAdd(forwardInput, turnInput),
       d \in IntSub(forwardInput, turnInput)}

SingleFile_applyDeadband(input, deadband) ==
    {IF n.trap
     THEN Trapped
     ELSE [trap |-> FALSE,
           value |-> IF input > n.val /\ input < deadband THEN 0 ELSE input]
     : n \in IntNeg(deadband)}

SingleFile_IntakeController_clampPowerLevel(powerLevel) ==
    IF powerLevel < 0 THEN 0
    ELSE IF powerLevel > 100 THEN 100
    ELSE powerLevel

SingleFile_IntakeController_calculateIntakePower(state, powerLevel) ==
    IF state = STOP THEN 0
    ELSE LET clampedPower == SingleFile_IntakeController_clampPowerLevel(powerLevel)
         IN  IF state = FORWARD THEN clampedPower
             ELSE IF state = REVERSE THEN -clampedPower
             ELSE 0

SingleFile_IntakeController_calculateRampPower(state, powerLevel) ==
    IF state = STOP THEN 0
    ELSE LET clampedPower == SingleFile_IntakeController_clampPowerLevel(powerLevel)
         IN  IF state = FORWARD THEN clampedPower
             ELSE IF state = REVERSE THEN -clampedPower
             ELSE 0

SingleFile_RampController_clampPowerLevel(powerLevel) ==
    IF powerLevel < 0 THEN 0
    ELSE IF powerLevel > 100 THEN 100
    ELSE powerLevel

SingleFile_RampController_calculateRampPower(state, useFullPower, powerLevel) ==
    IF state = STOP THEN 0
    ELSE IF useFullPower /\ state = FORWARD THEN 100
    ELSE IF useFullPower /\ state = REVERSE THEN -100
    ELSE LET clampedPower == SingleFile_RampController_clampPowerLevel(powerLevel)
         IN  IF state = FORWARD THEN clampedPower
             ELSE IF state = REVERSE THEN -clampedPower
             ELSE 0

SingleFile_calculatePistonState(position) == position = HIGH

SingleFile_getOppositePosition(position) ==
    IF position = LOW THEN HIGH ELSE LOW

SingleFile_togglePosition(currentPosition) ==
    SingleFile_getOppositePosition(currentPosition)

---------------------------------------------------------------------------
(* The robot program: state *)

\* a motor that was given no command yet / spin(forward, power, percent)
NoCommand == [cmd |-> "none", power |-> 0]
Spin(power) == [cmd |-> "spin", power |-> power]

\* a motor group that was stopped
Stop == [cmd |-> "stop", power |-> 0]

\* the calls made on the devices, as they appear in the order of issue
SpinCommand(device, power) == [dev |-> device, cmd |-> "spin", power |-> power]
StopCommand(device) == [dev |-> device, cmd |-> "stop"]
SetCommand(device, value) == [dev |-> device, cmd |-> "set", value |-> value]

\* a piston that was given no command yet / set(value)
Unset == [cmd |-> "none", value |-> FALSE]
Set(value) == [cmd |-> "set", value |-> value]

\* nothing read from the controller yet in this iteration
NoSample ==
    [Axis3 |-> 0, Axis2 |-> 0,
     ButtonR1 |-> FALSE, ButtonR2 |-> FALSE,
     ButtonL1 |-> FALSE, ButtonL2 |-> FALSE,
     ButtonX |-> FALSE, ButtonY |-> FALSE,
     ButtonA |-> FALSE]

\* the globals as their initializers leave them, before main runs
RobotInit ==
    /\ at = "main"
    /\ sampled = NoSample
    /\ prevToggleSample = FALSE
    /\ LeftDrive = NoCommand
    /\ RightDrive = NoCommand
    /\ IntakeMotor = NoCommand
    /\ RampMotor = NoCommand
    /\ FullPowerRampMotor = NoCommand
    /\ Piston1 = Unset
    /\ Piston2 = Unset
    /\ currentHeight = LOW
    /\ lastToggleButtonState = FALSE
    /\ issued = <<>>
    /\ risingEdgeParity = FALSE

---------------------------------------------------------------------------
(* The invocations *)

\* int arguments: a window around the power range and both ends of int
IntInputs ==
    ((-MaxInput)..MaxInput)
        \cup (INT_MIN..(INT_MIN + EdgeWidth))
        \cup ((INT_MAX - EdgeWidth)..INT_MAX)

ClampBounds ==
    ((-MaxBound)..MaxBound) \cup {MinPower, MaxPower, INT_MIN, INT_MAX}

Deadbands == ((-MaxDeadband)..MaxDeadband) \cup {INT_MIN, INT_MAX}

\* the invocations a caller can make
IsCall(c) ==
    \/ \E l \in IntInputs, r \in IntInputs :
          c = [fn |-> "calculateTankDrive", leftStickInput |-> l, rightStickInput |-> r]
    \/ \E f \in IntInputs, t \in IntInputs :
          c = [fn |-> "calculateArcadeDrive", forwardInput |-> f, turnInput |-> t]
    \/ \E v \in IntInputs, lo \in ClampBounds, hi \in ClampBounds :
          c = [fn |-> "clamp", value |-> v, min |-> lo, max |-> hi]
    \/ \E i \in IntInputs, d \in Deadbands :
          c = [fn |-> "applyDeadband", input |-> i, deadband |-> d]
    \/ \E s \in MotorState, p \in IntInputs :
          c = [fn |-> "IntakeController::calculateIntakePower",
               state |-> s, powerLevel |-> p]
    \/ \E s \in MotorState, p \in IntInputs :
          c = [fn |-> "IntakeController::calculateRampPower",
               state |-> s, powerLevel |-> p]
    \/ \E s \in MotorState, u \in BOOLEAN, p \in IntInputs :
          c = [fn |-> "RampController::calculateRampPower",
               state |-> s, useFullPower |-> u, powerLevel |-> p]
    \/ \E h \in HeightPosition :
          c = [fn |-> "calculatePistonState", position |-> h]
    \/ \E h \in HeightPosition :
          c = [fn |-> "getOppositePosition", position |-> h]
    \/ \E h \in HeightPosition :
          c = [fn |-> "togglePosition", currentPosition |-> h]
    \/ \E h \in HeightPosition :
          c = [fn |-> "togglePosition twice", currentPosition |-> h]

NoResult == [none |-> TRUE]

\* the bundle before its main runs (p: "call" when it is about to be invoked)
SingleFile_Start(p) ==
    [pc |-> p, ret |-> NoResult, issued |-> <<>>,
     LeftDrive |-> NoCommand, RightDrive |-> NoCommand,
     IntakeMotor |-> NoCommand, RampMotor |-> NoCommand,
     FullPowerRampMotor |-> NoCommand,
     Piston1 |-> Unset, Piston2 |-> Unset,
     currentHeight |-> LOW, lastToggleButtonState |-> FALSE]

Init ==
    /\ pc = "call"
    /\ IsCall(call)
    /\ ret = NoResult
    /\ RobotInit
    /\ bundle = SingleFile_Start("call")

\* a body that cannot overflow: runs to its return statement
Return(r) ==
    /\ pc' = "return"
    /\ ret' = r
    /\ UNCHANGED <<call, robotVars, bundle>>

\* a body with int arithmetic on its arguments: one of its outcomes happens
Complete(outcomes) ==
    \E o \in outcomes :
        /\ pc' = IF o.trap THEN "trap" ELSE "return"
        /\ ret' = o
        /\ UNCHANGED <<call, robotVars, bundle>>

CallTankDrive ==
    /\ pc = "call"
    /\ call.fn = "calculateTankDrive"
    /\ Return(calculateTankDrive(call.leftStickInput, call.rightStickInput))

CallArcadeDrive ==
    /\ pc = "call"
    /\ call.fn = "calculateArcadeDrive"
    /\ Complete(calculateArcadeDrive(call.forwardInput, call.turnInput))

CallClamp ==
    /\ pc = "call"
    /\ call.fn = "clamp"
    /\ Return([value |-> clamp(call.value, call.min, call.max)])

CallApplyDeadband ==
    /\ pc = "call"
    /\ call.fn = "applyDeadband"
    /\ Complete(applyDeadband(call.input, call.deadband))

CallIntakePower ==
    /\ pc = "call"
    /\ call.fn = "IntakeController::calculateIntakePower"
    /\ Return([value |-> IntakeController_calculateIntakePower(call.state, call.powerLevel)])

CallIntakeRampPower ==
    /\ pc = "call"
    /\ call.fn = "IntakeController::calculateRampPower"
    /\ Return([value |-> IntakeController_calculateRampPower(call.state, call.powerLevel)])

CallRampPower ==
    /\ pc = "call"
    /\ call.fn = "RampController::calculateRampPower"
    /\ Return([value |-> RampController_calculateRampPower(
                             call.state, call.useFullPower, call.powerLevel)])

CallCalculatePistonState ==
    /\ pc = "call"
    /\ call.fn = "calculatePistonState"
    /\ Return([value |-> calculatePistonState(call.position)])

CallGetOppositePosition ==
    /\ pc = "call"
    /\ call.fn = "getOppositePosition"
    /\ Return([value |-> getOppositePosition(call.position)])

CallTogglePosition ==
    /\ pc = "call"
    /\ call.fn = "togglePosition"
    /\ Return([value |-> togglePosition(call.currentPosition)])

\* togglePosition applied to the result of togglePosition
CallTogglePositionTwice ==
    /\ pc = "call"
    /\ call.fn = "togglePosition twice"
    /\ LET first == togglePosition(call.currentPosition)
           second == togglePosition(first)
       IN  Return([first |-> first, value |-> second])

Next ==
    \/ CallTankDrive
    \/ CallArcadeDrive
    \/ CallClamp
    \/ CallApplyDeadband
    \/ CallIntakePower
    \/ CallIntakeRampPower
    \/ CallRampPower
    \/ CallCalculatePistonState
    \/ CallGetOppositePosition
    \/ CallTogglePosition
    \/ CallTogglePositionTwice

Spec == Init /\ [][Next]_vars

---------------------------------------------------------------------------
(* The robot program: main, vexcodeInit, autonomous and the usercontrol loop *)

\* the deadband threshold usercontrol passes to applyDeadband
StickDeadband == 5
\* the power level usercontrol passes for the intake and ramp motors
FullLevel == 100
\* the power autonomous drives at
AutonomousPower == 50

\* positions Axis3 / Axis2 report (percent)
StickSamples ==
    {MinPower, 0, MaxPower}
        \cup ((StickDeadband - StickMargin)..(StickDeadband + StickMargin))
        \cup ((0 - StickDeadband - StickMargin)..(0 - StickDeadband + StickMargin))

NoCall == [fn |-> "none"]

RobotStart ==
    /\ pc = "idle"
    /\ call = NoCall
    /\ ret = NoResult
    /\ RobotInit
    /\ bundle = SingleFile_Start("idle")

VexcodeInit ==
    /\ at = "main"
    /\ LET initialPistonState == calculatePistonState(LOW)
       IN  /\ Piston1' = Set(initialPistonState)
           /\ Piston2' = Set(initialPistonState)
           /\ issued' = issued \o <<SetCommand("Piston1", initialPistonState),
                                    SetCommand("Piston2", initialPistonState)>>
    /\ currentHeight' = LOW
    /\ at' = "competition"
    /\ UNCHANGED <<callVars, sampled, prevToggleSample, risingEdgeParity,
                   LeftDrive, RightDrive, IntakeMotor, RampMotor,
                   FullPowerRampMotor, lastToggleButtonState>>

\* the competition object starts the autonomous callback
StartAutonomous ==
    /\ at = "competition"
    /\ at' = "autonomous"
    /\ issued' = <<>>
    /\ UNCHANGED <<callVars, sampled, prevToggleSample, risingEdgeParity,
                   LeftDrive, RightDrive, IntakeMotor, RampMotor,
                   FullPowerRampMotor, Piston1, Piston2, currentHeight,
                   lastToggleButtonState>>

\* autonomous up to wait(2000, msec)
AutonomousDrive_RightOnly ==
    /\ at = "autonomous"
    /\ RightDrive' = Spin(AutonomousPower)
    /\ issued' = issued \o <<SpinCommand("RightDrive", AutonomousPower)>>
    /\ at' = "autonomous wait"
    /\ UNCHANGED <<callVars, sampled, prevToggleSample, risingEdgeParity,
                   LeftDrive, IntakeMotor, RampMotor, FullPowerRampMotor, Piston1,
                   Piston2, currentHeight, lastToggleButtonState>>

AutonomousDrive ==
    /\ at = "autonomous"
    /\ LeftDrive' = Spin(AutonomousPower)
    /\ RightDrive' = Spin(AutonomousPower)
    /\ issued' = issued \o <<SpinCommand("LeftDrive", AutonomousPower),
                             SpinCommand("RightDrive", AutonomousPower)>>
    /\ at' = "autonomous wait"
    /\ UNCHANGED <<callVars, sampled, prevToggleSample, risingEdgeParity,
                   IntakeMotor, RampMotor, FullPowerRampMotor, Piston1, Piston2,
                   currentHeight, lastToggleButtonState>>

\* autonomous from the end of the wait to its return
AutonomousStop_LeftOnly ==
    /\ at = "autonomous wait"
    /\ LeftDrive' = Stop
    /\ issued' = issued \o <<StopCommand("LeftDrive")>>
    /\ at' = "autonomous returned"
    /\ UNCHANGED <<callVars, sampled, prevToggleSample, risingEdgeParity,
                   RightDrive, IntakeMotor, RampMotor, FullPowerRampMotor, Piston1,
                   Piston2, currentHeight, lastToggleButtonState>>

AutonomousStop ==
    /\ at = "autonomous wait"
    /\ LeftDrive' = Stop
    /\ RightDrive' = Stop
    /\ issued' = issued \o <<StopCommand("LeftDrive"), StopCommand("RightDrive")>>
    /\ at' = "autonomous returned"
    /\ UNCHANGED <<callVars, sampled, prevToggleSample, risingEdgeParity,
                   IntakeMotor, RampMotor, FullPowerRampMotor, Piston1, Piston2,
                   currentHeight, lastToggleButtonState>>

\* the competition object starts the driver-control callback
StartUserControl ==
    /\ at \in {"competition", "autonomous returned"}
    /\ at' = "drive"
    /\ issued' = <<>>
    /\ UNCHANGED <<callVars, sampled, prevToggleSample, risingEdgeParity,
                   LeftDrive, RightDrive, IntakeMotor, RampMotor,
                   FullPowerRampMotor, Piston1, Piston2, currentHeight,
                   lastToggleButtonState>>

TankDriveSection ==
    /\ at = "drive"
    /\ \E axis3 \in StickSamples, axis2 \in StickSamples :
         \E leftStickInput \in applyDeadband(axis3, StickDeadband),
            rightStickInput \in applyDeadband(axis2, StickDeadband) :
              /\ ~leftStickInput.trap
              /\ ~rightStickInput.trap
              /\ LET power == calculateTankDrive(leftStickInput.value,
                                                 rightStickInput.value)
                 IN  /\ LeftDrive' = Spin(power.leftPower)
                     /\ RightDrive' = Spin(power.rightPower)
                     /\ issued' = issued \o
                            <<SpinCommand("LeftDrive", power.leftPower),
                              SpinCommand("RightDrive", power.rightPower)>>
              /\ sampled' = [sampled EXCEPT !.Axis3 = axis3, !.Axis2 = axis2]
    /\ at' = "intake"
    /\ UNCHANGED <<callVars, prevToggleSample, risingEdgeParity, IntakeMotor,
                   RampMotor, FullPowerRampMotor, Piston1, Piston2, currentHeight,
                   lastToggleButtonState>>

\* if (forward button) FORWARD else if (reverse button) REVERSE, from STOP
StateFromButtons_ReverseFirst(forwardButton, reverseButton) ==
    IF reverseButton THEN REVERSE
    ELSE IF forwardButton THEN FORWARD
    ELSE STOP

StateFromButtons(forwardButton, reverseButton) ==
    IF forwardButton THEN FORWARD
    ELSE IF reverseButton THEN REVERSE
    ELSE STOP

IntakeSection ==
    /\ at = "intake"
    /\ \E r1 \in BOOLEAN, r2 \in BOOLEAN :
         LET intakeState == StateFromButtons(r1, r2)
             intakePower == IntakeController_calculateIntakePower(intakeState, FullLevel)
         IN  /\ IntakeMotor' = Spin(intakePower)
             /\ issued' = issued \o <<SpinCommand("IntakeMotor", intakePower)>>
             /\ sampled' = [sampled EXCEPT !.ButtonR1 = r1, !.ButtonR2 = r2]
    /\ at' = "ramp"
    /\ UNCHANGED <<callVars, prevToggleSample, risingEdgeParity, LeftDrive,
                   RightDrive, RampMotor, FullPowerRampMotor, Piston1, Piston2,
                   currentHeight, lastToggleButtonState>>

RampSection_NoStopOnRelease ==
    /\ at = "ramp"
    /\ \E l1 \in BOOLEAN, l2 \in BOOLEAN :
         LET rampState == StateFromButtons(l1, l2)
             rampPower == IntakeController_calculateRampPower(rampState, FullLevel)
         IN  /\ RampMotor' = IF rampState = STOP THEN RampMotor ELSE Spin(rampPower)
             /\ issued' = IF rampState = STOP
                          THEN issued
                          ELSE issued \o <<SpinCommand("RampMotor", rampPower)>>
             /\ sampled' = [sampled EXCEPT !.ButtonL1 = l1, !.ButtonL2 = l2]
    /\ at' = "fullpower"
    /\ UNCHANGED <<callVars, prevToggleSample, risingEdgeParity, LeftDrive,
                   RightDrive, IntakeMotor, FullPowerRampMotor, Piston1, Piston2,
                   currentHeight, lastToggleButtonState>>

\* the ramp power is computed from the intake state
RampSection_UsesIntakeState ==
    /\ at = "ramp"
    /\ \E l1 \in BOOLEAN, l2 \in BOOLEAN :
         LET intakeState == StateFromButtons(sampled.ButtonR1, sampled.ButtonR2)
             rampPower == IntakeController_calculateRampPower(intakeState, FullLevel)
         IN  /\ RampMotor' = Spin(rampPower)
             /\ issued' = issued \o <<SpinCommand("RampMotor", rampPower)>>
             /\ sampled' = [sampled EXCEPT !.ButtonL1 = l1, !.ButtonL2 = l2]
    /\ at' = "fullpower"
    /\ UNCHANGED <<callVars, prevToggleSample, risingEdgeParity, LeftDrive,
                   RightDrive, IntakeMotor, FullPowerRampMotor, Piston1, Piston2,
                   currentHeight, lastToggleButtonState>>

RampSection ==
    /\ at = "ramp"
    /\ \E l1 \in BOOLEAN, l2 \in BOOLEAN :
         LET rampState == StateFromButtons(l1, l2)
             rampPower == IntakeController_calculateRampPower(rampState, FullLevel)
         IN  /\ RampMotor' = Spin(rampPower)
             /\ issued' = issued \o <<SpinCommand("RampMotor", rampPower)>>
             /\ sampled' = [sampled EXCEPT !.ButtonL1 = l1, !.ButtonL2 = l2]
    /\ at' = "fullpower"
    /\ UNCHANGED <<callVars, prevToggleSample, risingEdgeParity, LeftDrive,
                   RightDrive, IntakeMotor, FullPowerRampMotor, Piston1, Piston2,
                   currentHeight, lastToggleButtonState>>

FullPowerSection ==
    /\ at = "fullpower"
    /\ \E x \in BOOLEAN, y \in BOOLEAN :
         LET fullPowerState == StateFromButtons(x, y)
             fullPowerRampPower ==
                 RampController_calculateRampPower(fullPowerState, TRUE, 0)
         IN  /\ FullPowerRampMotor' = Spin(fullPowerRampPower)
             /\ issued' = issued \o
                    <<SpinCommand("FullPowerRampMotor", fullPowerRampPower)>>
             /\ sampled' = [sampled EXCEPT !.ButtonX = x, !.ButtonY = y]
    /\ at' = "pneumatic"
    /\ UNCHANGED <<callVars, prevToggleSample, risingEdgeParity, LeftDrive,
                   RightDrive, IntakeMotor, RampMotor, Piston1, Piston2,
                   currentHeight, lastToggleButtonState>>

PneumaticSection_LevelTriggered ==
    /\ at = "pneumatic"
    /\ \E currentToggleButton \in BOOLEAN :
         /\ IF currentToggleButton
            THEN LET toggled == togglePosition(currentHeight)
                     pistonState == calculatePistonState(toggled)
                 IN  /\ currentHeight' = toggled
                     /\ Piston1' = Set(pistonState)
                     /\ Piston2' = Set(pistonState)
                     /\ issued' = issued \o <<SetCommand("Piston1", pistonState),
                                              SetCommand("Piston2", pistonState)>>
            ELSE UNCHANGED <<currentHeight, Piston1, Piston2, issued>>
         /\ lastToggleButtonState' = currentToggleButton
         /\ sampled' = [sampled EXCEPT !.ButtonA = currentToggleButton]
    /\ at' = "wait"
    /\ UNCHANGED <<callVars, prevToggleSample, risingEdgeParity, LeftDrive,
                   RightDrive, IntakeMotor, RampMotor, FullPowerRampMotor>>

PneumaticSection_OnePiston ==
    /\ at = "pneumatic"
    /\ \E currentToggleButton \in BOOLEAN :
         /\ IF currentToggleButton /\ ~lastToggleButtonState
            THEN LET toggled == togglePosition(currentHeight)
                     pistonState == calculatePistonState(toggled)
                 IN  /\ currentHeight' = toggled
                     /\ Piston1' = Set(pistonState)
                     /\ Piston2' = Piston2
                     /\ issued' = issued \o <<SetCommand("Piston1", pistonState)>>
            ELSE UNCHANGED <<currentHeight, Piston1, Piston2, issued>>
         /\ lastToggleButtonState' = currentToggleButton
         /\ sampled' = [sampled EXCEPT !.ButtonA = currentToggleButton]
    /\ at' = "wait"
    /\ UNCHANGED <<callVars, prevToggleSample, risingEdgeParity, LeftDrive,
                   RightDrive, IntakeMotor, RampMotor, FullPowerRampMotor>>

\* the pistons are set in every iteration, to the state of the current height
PneumaticSection_AlwaysWritesPistons ==
    /\ at = "pneumatic"
    /\ \E currentToggleButton \in BOOLEAN :
         /\ currentHeight' = IF currentToggleButton /\ ~lastToggleButtonState
                             THEN togglePosition(currentHeight)
                             ELSE currentHeight
         /\ LET pistonState == calculatePistonState(currentHeight')
            IN  /\ Piston1' = Set(pistonState)
                /\ Piston2' = Set(pistonState)
                /\ issued' = issued \o <<SetCommand("Piston1", pistonState),
                                         SetCommand("Piston2", pistonState)>>
         /\ lastToggleButtonState' = currentToggleButton
         /\ sampled' = [sampled EXCEPT !.ButtonA = currentToggleButton]
    /\ at' = "wait"
    /\ UNCHANGED <<callVars, prevToggleSample, risingEdgeParity, LeftDrive,
                   RightDrive, IntakeMotor, RampMotor, FullPowerRampMotor>>

PneumaticSection ==
    /\ at = "pneumatic"
    /\ \E currentToggleButton \in BOOLEAN :
         /\ IF currentToggleButton /\ ~lastToggleButtonState
            THEN LET toggled == togglePosition(currentHeight)
                     pistonState == calculatePistonState(toggled)
                 IN  /\ currentHeight' = toggled
                     /\ Piston1' = Set(pistonState)
                     /\ Piston2' = Set(pistonState)
                     /\ issued' = issued \o <<SetCommand("Piston1", pistonState),
                                              SetCommand("Piston2", pistonState)>>
            ELSE UNCHANGED <<currentHeight, Piston1, Piston2, issued>>
         /\ lastToggleButtonState' = currentToggleButton
         /\ sampled' = [sampled EXCEPT !.ButtonA = currentToggleButton]
    /\ at' = "wait"
    /\ UNCHANGED <<callVars, prevToggleSample, risingEdgeParity, LeftDrive,
                   RightDrive, IntakeMotor, RampMotor, FullPowerRampMotor>>

\* wait(20, msec): the iteration ends, its locals go out of scope
Wait ==
    /\ at = "wait"
    /\ prevToggleSample' = sampled.ButtonA
    /\ risingEdgeParity' = (risingEdgeParity # (sampled.ButtonA /\ ~prevToggleSample))
    /\ sampled' = NoSample
    /\ issued' = <<>>
    /\ at' = "drive"
    /\ UNCHANGED <<callVars, LeftDrive, RightDrive, IntakeMotor, RampMotor,
                   FullPowerRampMotor, Piston1, Piston2, currentHeight,
                   lastToggleButtonState>>

RobotNext ==
    \/ VexcodeInit /\ UNCHANGED bundle
    \/ StartAutonomous /\ UNCHANGED bundle
    \/ AutonomousDrive /\ UNCHANGED bundle
    \/ AutonomousStop /\ UNCHANGED bundle
    \/ StartUserControl /\ UNCHANGED bundle
    \/ TankDriveSection /\ UNCHANGED bundle
    \/ IntakeSection /\ UNCHANGED bundle
    \/ RampSection /\ UNCHANGED bundle
    \/ FullPowerSection /\ UNCHANGED bundle
    \/ PneumaticSection /\ UNCHANGED bundle
    \/ Wait /\ UNCHANGED bundle

RobotSpec == RobotStart /\ [][RobotNext]_vars

\* the scheduler runs a started autonomous callback to its return
AutonomousSpec ==
    /\ RobotSpec
    /\ WF_vars(AutonomousDrive /\ UNCHANGED bundle)
    /\ WF_vars(AutonomousStop /\ UNCHANGED bundle)

---------------------------------------------------------------------------
(* The bundle run beside the modular program: the same invocation, and the  *)
(* same controller samples in every iteration                               *)

\* what the bundle's copy of the invoked function can return
SingleFile_Outcomes(c) ==
    CASE c.fn = "calculateTankDrive" ->
            {SingleFile_calculateTankDrive(c.leftStickInput, c.rightStickInput)}
      [] c.fn = "calculateArcadeDrive" ->
            SingleFile_calculateArcadeDrive(c.forwardInput, c.turnInput)
      [] c.fn = "clamp" ->
            {[value |-> SingleFile_clamp(c.value, c.min, c.max)]}
      [] c.fn = "applyDeadband" ->
            SingleFile_applyDeadband(c.input, c.deadband)
      [] c.fn = "IntakeController::calculateIntakePower" ->
            {[value |-> SingleFile_IntakeController_calculateIntakePower(
                            c.state, c.powerLevel)]}
      [] c.fn = "IntakeController::calculateRampPower" ->
            {[value |-> SingleFile_IntakeController_calculateRampPower(
                            c.state, c.powerLevel)]}
      [] c.fn = "RampController::calculateRampPower" ->
            {[value |-> SingleFile_RampController_calculateRampPower(
                            c.state, c.useFullPower, c.powerLevel)]}
      [] c.fn = "calculatePistonState" ->
            {[value |-> SingleFile_calculatePistonState(c.position)]}
      [] c.fn = "getOppositePosition" ->
            {[value |-> SingleFile_getOppositePosition(c.position)]}
      [] c.fn = "togglePosition" ->
            {[value |-> SingleFile_togglePosition(c.currentPosition)]}
      [] c.fn = "togglePosition twice" ->
            {LET first == SingleFile_togglePosition(c.currentPosition)
             IN  [first |-> first, value |-> SingleFile_togglePosition(first)]}

IsTrap(o) == "trap" \in DOMAIN o /\ o.trap

\* the invocation made on the bundle
SingleFile_Call ==
    /\ bundle.pc = "call"
    /\ \E o \in SingleFile_Outcomes(call) :
         bundle' = [bundle EXCEPT !.pc = IF IsTrap(o) THEN "trap" ELSE "return",
                                  !.ret = o]
    /\ UNCHANGED <<callVars, robotVars>>

SingleFile_VexcodeInit ==
    LET initialPistonState == SingleFile_calculatePistonState(LOW)
    IN  bundle' = [bundle EXCEPT
            !.Piston1 = Set(initialPistonState),
            !.Piston2 = Set(initialPistonState),
            !.issued = @ \o <<SetCommand("Piston1", initialPistonState),
                              SetCommand("Piston2", initialPistonState)>>,
            !.currentHeight = LOW]

\* a callback is started, or an iteration ends
SingleFile_Begin == bundle' = [bundle EXCEPT !.issued = <<>>]

SingleFile_AutonomousDrive ==
    bundle' = [bundle EXCEPT
        !.LeftDrive = Spin(50),
        !.RightDrive = Spin(50),
        !.issued = @ \o <<SpinCommand("LeftDrive", 50), SpinCommand("RightDrive", 50)>>]

SingleFile_AutonomousStop ==
    bundle' = [bundle EXCEPT
        !.LeftDrive = Stop,
        !.RightDrive = Stop,
        !.issued = @ \o <<StopCommand("LeftDrive"), StopCommand("RightDrive")>>]

\* the bundle's iteration reads the controller values this iteration reads
SingleFile_TankDriveSection ==
    \E leftStickInput \in SingleFile_applyDeadband(sampled'.Axis3, 5),
       rightStickInput \in SingleFile_applyDeadband(sampled'.Axis2, 5) :
         /\ ~leftStickInput.trap
         /\ ~rightStickInput.trap
         /\ LET power == SingleFile_calculateTankDrive(leftStickInput.value,
                                                       rightStickInput.value)
            IN  bundle' = [bundle EXCEPT
                    !.LeftDrive = Spin(power.leftPower),
                    !.RightDrive = Spin(power.rightPower),
                    !.issued = @ \o <<SpinCommand("LeftDrive", power.leftPower),
                                      SpinCommand("RightDrive", power.rightPower)>>]

SingleFile_StateFromButtons(forwardButton, reverseButton) ==
    IF forwardButton THEN FORWARD
    ELSE IF reverseButton THEN REVERSE
    ELSE STOP

SingleFile_IntakeSection ==
    LET intakeState ==
            SingleFile_StateFromButtons(sampled'.ButtonR1, sampled'.ButtonR2)
        intakePower ==
            SingleFile_IntakeController_calculateIntakePower(intakeState, 100)
    IN  bundle' = [bundle EXCEPT
            !.IntakeMotor = Spin(intakePower),
            !.issued = @ \o <<SpinCommand("IntakeMotor", intakePower)>>]

SingleFile_RampSection ==
    LET rampState ==
            SingleFile_StateFromButtons(sampled'.ButtonL1, sampled'.ButtonL2)
        rampPower ==
            SingleFile_IntakeController_calculateRampPower(rampState, 100)
    IN  bundle' = [bundle EXCEPT
            !.RampMotor = Spin(rampPower),
            !.issued = @ \o <<SpinCommand("RampMotor", rampPower)>>]

SingleFile_FullPowerSection ==
    LET fullPowerState ==
            SingleFile_StateFromButtons(sampled'.ButtonX, sampled'.ButtonY)
        fullPowerRampPower ==
            SingleFile_RampController_calculateRampPower(fullPowerState, TRUE, 0)
    IN  bundle' = [bundle EXCEPT
            !.FullPowerRampMotor = Spin(fullPowerRampPower),
            !.issued = @ \o <<SpinCommand("FullPowerRampMotor", fullPowerRampPower)>>]

SingleFile_PneumaticSection ==
    LET currentToggleButton == sampled'.ButtonA
    IN  IF currentToggleButton /\ ~bundle.lastToggleButtonState
        THEN LET toggled == SingleFile_togglePosition(bundle.currentHeight)
                 pistonState == SingleFile_calculatePistonState(toggled)
             IN  bundle' = [bundle EXCEPT
                     !.currentHeight = toggled,
                     !.Piston1 = Set(pistonState),
                     !.Piston2 = Set(pistonState),
                     !.issued = @ \o <<SetCommand("Piston1", pistonState),
                                       SetCommand("Piston2", pistonState)>>,
                     !.lastToggleButtonState = currentToggleButton]
        ELSE bundle' = [bundle EXCEPT !.lastToggleButtonState = currentToggleButton]

\* both programs on one robot state machine, and either one invoked
DeploymentInit == Init \/ RobotStart

DeploymentNext ==
    \/ Next
    \/ SingleFile_Call
    \/ pc = "idle" /\ VexcodeInit /\ SingleFile_VexcodeInit
    \/ StartAutonomous /\ SingleFile_Begin
    \/ AutonomousDrive /\ SingleFile_AutonomousDrive
    \/ AutonomousStop /\ SingleFile_AutonomousStop
    \/ StartUserControl /\ SingleFile_Begin
    \/ TankDriveSection /\ SingleFile_TankDriveSection
    \/ IntakeSection /\ SingleFile_IntakeSection
    \/ RampSection /\ SingleFile_RampSection
    \/ FullPowerSection /\ SingleFile_FullPowerSection
    \/ PneumaticSection /\ SingleFile_PneumaticSection
    \/ Wait /\ SingleFile_Begin

DeploymentSpec == DeploymentInit /\ [][DeploymentNext]_vars

---------------------------------------------------------------------------
(* Reference notions used to state the properties *)

Min2(a, b) == IF a <= b THEN a ELSE b
Max2(a, b) == IF a >= b THEN a ELSE b

\* the point of [lo, hi] nearest to v (lo <= hi), over unbounded integers
Nearest(v, lo, hi) == Max2(lo, Min2(v, hi))

\* the legal motor power range
InPowerRange(x) == -100 <= x /\ x <= 100
NearestPower(v) == Nearest(v, -100, 100)

\* an arcade mixer that clamps forward and turn before summing
ArcadeClampingInputsFirst(f, t) ==
    LET cf == NearestPower(f)
        ct == NearestPower(t)
    IN  <<NearestPower(cf + ct), NearestPower(cf - ct)>>

\* a power level range-clamped to [0, 100]
Level(p) == IF 0 <= p /\ p <= 100 THEN p ELSE IF p < 0 THEN 0 ELSE 100

\* the functions that map a motor state and a level to a signed power
PowerMappings ==
    {"IntakeController::calculateIntakePower",
     "IntakeController::calculateRampPower",
     "RampController::calculateRampPower"}

Returned(f) == pc = "return" /\ call.fn = f
Finished(f) == pc # "call" /\ call.fn = f

---------------------------------------------------------------------------
(* Properties *)

\* C1: whenever forward+turn and forward-turn are representable,
\* calculateArcadeDrive returns leftPower = clamp(forward+turn, -100, 100)
\* and rightPower = clamp(forward-turn, -100, 100), each side clamped on its
\* own after the sum, so leftPower - rightPower is the difference of the
\* two clamped values.
C1_ArcadeClampAfterSum ==
    (/\ Finished("calculateArcadeDrive")
     /\ Representable(call.forwardInput + call.turnInput)
     /\ Representable(call.forwardInput - call.turnInput))
    => /\ pc = "return"
       /\ ret.leftPower = NearestPower(call.forwardInput + call.turnInput)
       /\ ret.rightPower = NearestPower(call.forwardInput - call.turnInput)
       /\ ret.leftPower - ret.rightPower =
            NearestPower(call.forwardInput + call.turnInput)
              - NearestPower(call.forwardInput - call.turnInput)

C1_Witness ==
    /\ Returned("calculateArcadeDrive")
    /\ call.forwardInput = 80
    /\ call.turnInput = 50
    /\ ret.leftPower = 100
    /\ ret.rightPower = 30

\* C2 as claimed: every integer result of every function, applyDeadband
\* included, lies in [-100, 100].
C2_EveryResultInPowerRange ==
    pc = "return" =>
        CASE call.fn \in {"calculateTankDrive", "calculateArcadeDrive"} ->
                InPowerRange(ret.leftPower) /\ InPowerRange(ret.rightPower)
          [] call.fn = "clamp" ->
                (call.min = -100 /\ call.max = 100) => InPowerRange(ret.value)
          [] call.fn \in PowerMappings \cup {"applyDeadband"} ->
                InPowerRange(ret.value)
          [] OTHER -> TRUE

\* C2 amended: every integer result of calculateTankDrive,
\* calculateArcadeDrive, clamp with bounds -100/100 and the three power
\* mappings lies in [-100, 100]; applyDeadband does not clamp: its result
\* lies in [-100, 100] exactly when its input does or is deadbanded.
C2_ClampingResultsInPowerRange ==
    pc = "return" =>
        CASE call.fn \in {"calculateTankDrive", "calculateArcadeDrive"} ->
                InPowerRange(ret.leftPower) /\ InPowerRange(ret.rightPower)
          [] call.fn = "clamp" ->
                (call.min = -100 /\ call.max = 100) => InPowerRange(ret.value)
          [] call.fn = "applyDeadband" ->
                InPowerRange(ret.value) <=>
                    \/ InPowerRange(call.input)
                    \/ (0 - call.deadband < call.input /\ call.input < call.deadband)
          [] call.fn \in PowerMappings -> InPowerRange(ret.value)
          [] OTHER -> TRUE

C2_Witness ==
    /\ Returned("calculateArcadeDrive")
    /\ call.forwardInput = 150
    /\ call.turnInput = -150
    /\ ret.leftPower = 0
    /\ ret.rightPower = 100

\* C3: for bounds min <= max, clamp returns value when min <= value <= max,
\* min when value < min and max when value > max; a value equal to a bound
\* comes back as that bound.
C3_ClampTotalOrder ==
    (Returned("clamp") /\ call.min <= call.max) =>
        /\ (call.min <= call.value /\ call.value <= call.max) => ret.value = call.value
        /\ call.value < call.min => ret.value = call.min
        /\ call.value > call.max => ret.value = call.max
        /\ call.value = call.min => ret.value = call.min
        /\ call.value = call.max => ret.value = call.max

C3_Witness ==
    /\ Returned("clamp")
    /\ call.value = 150
    /\ call.min = -100
    /\ call.max = 100
    /\ ret.value = 100

\* C4: calculateTankDrive returns each stick input unchanged when it lies in
\* [-100, 100] and the nearest of -100, 100 otherwise; leftPower is decided
\* by leftStickInput alone and rightPower by rightStickInput alone.
C4_TankDrivePerSide ==
    Returned("calculateTankDrive") =>
        /\ InPowerRange(call.leftStickInput) => ret.leftPower = call.leftStickInput
        /\ call.leftStickInput > 100 => ret.leftPower = 100
        /\ call.leftStickInput < -100 => ret.leftPower = -100
        /\ InPowerRange(call.rightStickInput) => ret.rightPower = call.rightStickInput
        /\ call.rightStickInput > 100 => ret.rightPower = 100
        /\ call.rightStickInput < -100 => ret.rightPower = -100

C4_Witness ==
    /\ Returned("calculateTankDrive")
    /\ call.leftStickInput = -50
    /\ call.rightStickInput = 150
    /\ ret.leftPower = -50
    /\ ret.rightPower = 100

\* C5: applyDeadband(input, d) returns 0 when -d < input < d (strict on both
\* sides) and otherwise returns input unchanged, without clamping: input = d
\* and input = -d come back unchanged, and so does an input outside
\* [-100, 100].
C5_DeadbandStrictNoClamp ==
    Returned("applyDeadband") =>
        ret.value = IF 0 - call.deadband < call.input /\ call.input < call.deadband
                    THEN 0
                    ELSE call.input

C5_Witness ==
    /\ Returned("applyDeadband")
    /\ call.deadband = 5
    /\ call.input = -5
    /\ ret.value = -5

\* C6 as claimed: for every pair of machine ints, also when forward+turn or
\* forward-turn is not representable, calculateArcadeDrive completes and
\* returns the clamp of the mathematical sum and difference.
C6_ArcadeTotalOnMachineInts ==
    Finished("calculateArcadeDrive") =>
        /\ pc = "return"
        /\ ret.leftPower = NearestPower(call.forwardInput + call.turnInput)
        /\ ret.rightPower = NearestPower(call.forwardInput - call.turnInput)

\* C7: clamping the inputs first changes the result at saturation: for every
\* forward above 100 and every turn in 1..100, calculateArcadeDrive's
\* (leftPower, rightPower) differs from that of the variant that clamps
\* forward and turn to [-100, 100] before summing.
C7_ClampInputsFirstDiffers ==
    (/\ Returned("calculateArcadeDrive")
     /\ call.forwardInput > 100
     /\ 1 <= call.turnInput /\ call.turnInput <= 100)
    => <<ret.leftPower, ret.rightPower>>
          # ArcadeClampingInputsFirst(call.forwardInput, call.turnInput)

C7_Witness ==
    /\ Returned("calculateArcadeDrive")
    /\ call.forwardInput = 150
    /\ call.turnInput = 50
    /\ <<ret.leftPower, ret.rightPower>> = <<100, 100>>
    /\ ArcadeClampingInputsFirst(call.forwardInput, call.turnInput) = <<100, 50>>

\* C8: IntakeController::calculateIntakePower(STOP, powerLevel) and
\* IntakeController::calculateRampPower(STOP, powerLevel) return 0 for every
\* powerLevel, negative and above 100 included.
C8_IntakeStopIsZero ==
    (/\ pc = "return"
     /\ call.fn \in {"IntakeController::calculateIntakePower",
                     "IntakeController::calculateRampPower"}
     /\ call.state = STOP)
    => ret.value = 0

C8_Witness ==
    /\ Returned("IntakeController::calculateIntakePower")
    /\ call.state = STOP
    /\ call.powerLevel = 150
    /\ ret.value = 0

\* C9: the variable-power mapping returns +L for FORWARD and -L for REVERSE,
\* L being powerLevel when 0 <= powerLevel <= 100, 0 when powerLevel < 0 and
\* 100 when powerLevel > 100.
C9_VariablePowerSignedLevel ==
    (/\ pc = "return"
     /\ call.fn \in {"IntakeController::calculateIntakePower",
                     "IntakeController::calculateRampPower"})
    => /\ call.state = FORWARD => ret.value = Level(call.powerLevel)
       /\ call.state = REVERSE => ret.value = 0 - Level(call.powerLevel)

C9_Witness ==
    /\ Returned("IntakeController::calculateIntakePower")
    /\ call.state = REVERSE
    /\ call.powerLevel = 150
    /\ ret.value = -100

\* C10: RampController::calculateRampPower(STOP, useFullPower, powerLevel)
\* returns 0 for every useFullPower and every powerLevel.
C10_RampStopIsZero ==
    (Returned("RampController::calculateRampPower") /\ call.state = STOP)
    => ret.value = 0

C10_Witness ==
    /\ Returned("RampController::calculateRampPower")
    /\ call.state = STOP
    /\ call.useFullPower
    /\ call.powerLevel = 50
    /\ ret.value = 0

\* C11: with useFullPower = TRUE, RampController::calculateRampPower returns
\* exactly 100 for FORWARD and exactly -100 for REVERSE whatever powerLevel
\* is, so two calls that differ only in powerLevel return the same value.
C11_FullPowerIgnoresLevel ==
    (Returned("RampController::calculateRampPower") /\ call.useFullPower)
    => /\ call.state = FORWARD => ret.value = 100
       /\ call.state = REVERSE => ret.value = -100

C11_Witness ==
    /\ Returned("RampController::calculateRampPower")
    /\ call.useFullPower
    /\ call.state = REVERSE
    /\ call.powerLevel = -150
    /\ ret.value = -100

\* C12: with useFullPower = FALSE, RampController::calculateRampPower(state,
\* FALSE, powerLevel) equals IntakeController::calculateIntakePower(state,
\* powerLevel) for every state and powerLevel.
C12_VariableModeMatchesIntake ==
    (Returned("RampController::calculateRampPower") /\ ~call.useFullPower)
    => ret.value = IntakeController_calculateIntakePower(call.state, call.powerLevel)

C12_Witness ==
    /\ Returned("RampController::calculateRampPower")
    /\ ~call.useFullPower
    /\ call.state = REVERSE
    /\ call.powerLevel = 75
    /\ ret.value = -75

\* C13: IntakeController::calculateIntakePower and
\* IntakeController::calculateRampPower return the same value for every
\* state and powerLevel.
C13_IntakeAndRampMappingsAgree ==
    /\ Returned("IntakeController::calculateIntakePower")
         => ret.value = IntakeController_calculateRampPower(call.state, call.powerLevel)
    /\ Returned("IntakeController::calculateRampPower")
         => ret.value = IntakeController_calculateIntakePower(call.state, call.powerLevel)

C13_Witness ==
    /\ Returned("IntakeController::calculateRampPower")
    /\ call.state = FORWARD
    /\ call.powerLevel = 150
    /\ ret.value = 100
    /\ IntakeController_calculateIntakePower(call.state, call.powerLevel) = 100

\* C14: applying togglePosition twice returns the starting position, for
\* LOW and for HIGH.
C14_ToggleTwiceIsIdentity ==
    Returned("togglePosition twice") => ret.value = call.currentPosition

C14_Witness ==
    /\ Returned("togglePosition twice")
    /\ call.currentPosition = LOW
    /\ ret.first = HIGH
    /\ ret.value = LOW

\* C15: togglePosition(p) equals getOppositePosition(p); both map LOW to
\* HIGH and HIGH to LOW, so the result never equals the argument.
C15_ToggleIsOpposite ==
    /\ Returned("togglePosition") =>
         /\ ret.value = getOppositePosition(call.currentPosition)
         /\ call.currentPosition = LOW => ret.value = HIGH
         /\ call.currentPosition = HIGH => ret.value = LOW
         /\ ret.value # call.currentPosition
    /\ Returned("getOppositePosition") =>
         /\ ret.value = togglePosition(call.position)
         /\ call.position = LOW => ret.value = HIGH
         /\ call.position = HIGH => ret.value = LOW
         /\ ret.value # call.position

C15_Witness ==
    /\ Returned("togglePosition")
    /\ call.currentPosition = HIGH
    /\ ret.value = LOW

\* C16: calculatePistonState(position) is TRUE exactly for HIGH (extended)
\* and FALSE exactly for LOW (retracted).
C16_PistonStateIsHigh ==
    Returned("calculatePistonState") =>
        /\ ret.value = TRUE <=> call.position = HIGH
        /\ ret.value = FALSE <=> call.position = LOW

C16_Witness ==
    /\ Returned("calculatePistonState")
    /\ call.position = HIGH
    /\ ret.value = TRUE

---------------------------------------------------------------------------
(* Properties of the robot program *)

\* positions of an iteration at which the section's command has been given
AfterIntake == {"ramp", "fullpower", "pneumatic", "wait"}
AfterRamp == {"fullpower", "pneumatic", "wait"}
AfterFullPower == {"pneumatic", "wait"}

\* C17: in every usercontrol iteration currentHeight is toggled if and only
\* if Button A is read pressed and was read not pressed in the previous
\* iteration (not pressed before the first); holding the button therefore
\* toggles once, and a new toggle needs a released sample in between.
C17_ToggleOnRisingEdgeOnly ==
    [][at = "pneumatic" =>
         ((currentHeight' # currentHeight)
            <=> (sampled'.ButtonA /\ ~prevToggleSample))]_vars

C17_Witness ==
    /\ at = "wait"
    /\ sampled.ButtonA
    /\ ~prevToggleSample
    /\ currentHeight = LOW
    /\ Piston1 = Set(FALSE)
    /\ LeftDrive.cmd = "spin"

\* C18: after vexcodeInit and at the end of every usercontrol iteration the
\* last value commanded to Piston1 equals the last value commanded to
\* Piston2 and equals calculatePistonState(currentHeight).
C18_PistonsFollowHeight ==
    at # "main" =>
        /\ Piston1.cmd = "set"
        /\ Piston2.cmd = "set"
        /\ Piston1.value = Piston2.value
        /\ Piston1.value = calculatePistonState(currentHeight)

C18_Witness ==
    /\ at = "wait"
    /\ currentHeight = HIGH
    /\ Piston1 = Set(TRUE)
    /\ Piston2 = Set(TRUE)

\* C19: in every usercontrol iteration in which neither R1 nor R2 is read
\* pressed the intake motor is commanded 0, in which neither L1 nor L2 is
\* pressed the ramp motor is commanded 0, and in which neither X nor Y is
\* pressed the full-power ramp motor is commanded 0, whatever was commanded
\* before.
C19_ReleasedButtonsStopMotors ==
    /\ (at \in AfterIntake /\ ~sampled.ButtonR1 /\ ~sampled.ButtonR2)
         => IntakeMotor = Spin(0)
    /\ (at \in AfterRamp /\ ~sampled.ButtonL1 /\ ~sampled.ButtonL2)
         => RampMotor = Spin(0)
    /\ (at \in AfterFullPower /\ ~sampled.ButtonX /\ ~sampled.ButtonY)
         => FullPowerRampMotor = Spin(0)

C19_Witness ==
    /\ at = "wait"
    /\ ~sampled.ButtonR1 /\ ~sampled.ButtonR2
    /\ ~sampled.ButtonL1 /\ ~sampled.ButtonL2
    /\ ~sampled.ButtonX /\ ~sampled.ButtonY
    /\ IntakeMotor = Spin(0)
    /\ RampMotor = Spin(0)
    /\ FullPowerRampMotor = Spin(0)
    /\ currentHeight = HIGH
    /\ ~sampled.ButtonA

\* C20: in every usercontrol iteration a pressed direction button drives its
\* motor at full power: R1 gives intake +100 and R2 alone -100, L1 gives
\* ramp +100 and L2 alone -100, X gives the full-power ramp +100 and Y alone
\* -100; the power commanded to these three motors is always -100, 0 or 100.
C20_PressedButtonsDriveAtFullPower ==
    /\ at \in AfterIntake =>
         /\ sampled.ButtonR1 => IntakeMotor = Spin(100)
         /\ (~sampled.ButtonR1 /\ sampled.ButtonR2) => IntakeMotor = Spin(-100)
    /\ at \in AfterRamp =>
         /\ sampled.ButtonL1 => RampMotor = Spin(100)
         /\ (~sampled.ButtonL1 /\ sampled.ButtonL2) => RampMotor = Spin(-100)
    /\ at \in AfterFullPower =>
         /\ sampled.ButtonX => FullPowerRampMotor = Spin(100)
         /\ (~sampled.ButtonX /\ sampled.ButtonY) => FullPowerRampMotor = Spin(-100)
    /\ \A m \in {IntakeMotor, RampMotor, FullPowerRampMotor} :
         m.cmd = "spin" => m.power \in {-100, 0, 100}

C20_Witness ==
    /\ at = "wait"
    /\ sampled.ButtonR1
    /\ ~sampled.ButtonL1 /\ sampled.ButtonL2
    /\ ~sampled.ButtonX /\ sampled.ButtonY
    /\ IntakeMotor = Spin(100)
    /\ RampMotor = Spin(-100)
    /\ FullPowerRampMotor = Spin(-100)

---------------------------------------------------------------------------
(* The bundle against the modular version *)

\* what the modular version of the invoked function can return
ModularOutcomes(c) ==
    CASE c.fn = "calculateTankDrive" ->
            {calculateTankDrive(c.leftStickInput, c.rightStickInput)}
      [] c.fn = "calculateArcadeDrive" ->
            calculateArcadeDrive(c.forwardInput, c.turnInput)
      [] c.fn = "clamp" -> {[value |-> clamp(c.value, c.min, c.max)]}
      [] c.fn = "applyDeadband" -> applyDeadband(c.input, c.deadband)
      [] c.fn = "IntakeController::calculateIntakePower" ->
            {[value |-> IntakeController_calculateIntakePower(c.state, c.powerLevel)]}
      [] c.fn = "IntakeController::calculateRampPower" ->
            {[value |-> IntakeController_calculateRampPower(c.state, c.powerLevel)]}
      [] c.fn = "RampController::calculateRampPower" ->
            {[value |-> RampController_calculateRampPower(
                            c.state, c.useFullPower, c.powerLevel)]}
      [] c.fn = "calculatePistonState" ->
            {[value |-> calculatePistonState(c.position)]}
      [] c.fn = "getOppositePosition" ->
            {[value |-> getOppositePosition(c.position)]}
      [] c.fn = "togglePosition" ->
            {[value |-> togglePosition(c.currentPosition)]}
      [] c.fn = "togglePosition twice" ->
            {LET first == togglePosition(c.currentPosition)
             IN  [first |-> first, value |-> togglePosition(first)]}

Done(p) == p \in {"return", "trap"}

\* C21: the single-file bundle behaves as the modular version does.  For
\* every invocation, what the modular function returns is a result of the
\* bundle's copy and what the bundle's copy returns is a result of the
\* modular function (where the source leaves one result, the two are
\* equal); run on the same controller samples, the bundle has given every
\* motor and piston the same last command, has issued the same calls in the
\* same order in the running callback or iteration, and holds the same
\* currentHeight and lastToggleButtonState.
C21_BundleMatchesModular ==
    /\ Done(pc) => ret \in SingleFile_Outcomes(call)
    /\ Done(bundle.pc) => bundle.ret \in ModularOutcomes(call)
    /\ (Done(pc) /\ Done(bundle.pc) /\ Cardinality(ModularOutcomes(call)) = 1)
         => bundle.ret = ret /\ bundle.pc = pc
    /\ bundle.LeftDrive = LeftDrive
    /\ bundle.RightDrive = RightDrive
    /\ bundle.IntakeMotor = IntakeMotor
    /\ bundle.RampMotor = RampMotor
    /\ bundle.FullPowerRampMotor = FullPowerRampMotor
    /\ bundle.Piston1 = Piston1
    /\ bundle.Piston2 = Piston2
    /\ bundle.issued = issued
    /\ bundle.currentHeight = currentHeight
    /\ bundle.lastToggleButtonState = lastToggleButtonState

C21_Witness ==
    /\ at = "wait"
    /\ sampled.Axis3 = 4
    /\ sampled.Axis2 = -5
    /\ sampled.ButtonR2 /\ ~sampled.ButtonR1
    /\ sampled.ButtonA
    /\ bundle.currentHeight = HIGH
    /\ bundle.issued =
         <<SpinCommand("LeftDrive", 0), SpinCommand("RightDrive", -5),
           SpinCommand("IntakeMotor", -100), SpinCommand("RampMotor", 0),
           SpinCommand("FullPowerRampMotor", 0),
           SetCommand("Piston1", TRUE), SetCommand("Piston2", TRUE)>>
    /\ issued = bundle.issued

\* positions of an iteration at which the drive commands have been given
AfterDrive == {"intake", "ramp", "fullpower", "pneumatic", "wait"}

\* the drive power for a stick sample s: 0 inside the deadband, else the
\* point of [-100, 100] nearest to s
DrivePower(s) == IF -5 < s /\ s < 5 THEN 0 ELSE NearestPower(s)

\* C22: in every usercontrol iteration each drive side is commanded 0 when
\* its stick sample s satisfies -5 < s < 5 and clamp(s, -100, 100)
\* otherwise (left from Axis3, right from Axis2); a power commanded to a
\* drive side is never a nonzero value of magnitude below 5 and always lies
\* in [-100, 100].
C22_DriveIsDeadbandThenClamp ==
    /\ at \in AfterDrive =>
         /\ LeftDrive = Spin(DrivePower(sampled.Axis3))
         /\ RightDrive = Spin(DrivePower(sampled.Axis2))
    /\ \A m \in {LeftDrive, RightDrive} :
         m.cmd = "spin" =>
            /\ InPowerRange(m.power)
            /\ m.power = 0 \/ m.power >= 5 \/ m.power <= -5

C22_Witness ==
    /\ at = "wait"
    /\ sampled.Axis3 = -4
    /\ sampled.Axis2 = 5
    /\ LeftDrive = Spin(0)
    /\ RightDrive = Spin(5)
    /\ prevToggleSample

\* the power for a pair of direction buttons
ButtonPower(forwardButton, reverseButton) ==
    IF forwardButton THEN 100 ELSE IF reverseButton THEN -100 ELSE 0

\* whether the Button A samples up to and including this iteration's hold
\* an odd number of released-to-pressed changes
OddRisingEdges(sample) == risingEdgeParity # (sample /\ ~prevToggleSample)

\* C23: the subsystems are controlled independently.  Every step of the
\* usercontrol loop commands one subsystem with a value fixed by that
\* subsystem's own inputs alone (the drive sides by the two stick samples
\* of the iteration, the intake by R1/R2, the ramp by L1/L2, the full-power
\* ramp by X/Y, the pistons by the Button A samples so far) and leaves the
\* commands of every other subsystem as they were; so no change in the
\* inputs of one subsystem changes the command of another.
C23_SubsystemsIndependent ==
    [][/\ at = "drive" =>
            /\ LeftDrive' = Spin(DrivePower(sampled'.Axis3))
            /\ RightDrive' = Spin(DrivePower(sampled'.Axis2))
            /\ UNCHANGED <<IntakeMotor, RampMotor, FullPowerRampMotor,
                           Piston1, Piston2>>
       /\ at = "intake" =>
            /\ IntakeMotor' = Spin(ButtonPower(sampled'.ButtonR1, sampled'.ButtonR2))
            /\ UNCHANGED <<LeftDrive, RightDrive, RampMotor, FullPowerRampMotor,
                           Piston1, Piston2>>
       /\ at = "ramp" =>
            /\ RampMotor' = Spin(ButtonPower(sampled'.ButtonL1, sampled'.ButtonL2))
            /\ UNCHANGED <<LeftDrive, RightDrive, IntakeMotor, FullPowerRampMotor,
                           Piston1, Piston2>>
       /\ at = "fullpower" =>
            /\ FullPowerRampMotor' =
                   Spin(ButtonPower(sampled'.ButtonX, sampled'.ButtonY))
            /\ UNCHANGED <<LeftDrive, RightDrive, IntakeMotor, RampMotor,
                           Piston1, Piston2>>
       /\ at = "pneumatic" =>
            /\ Piston1' = Set(OddRisingEdges(sampled'.ButtonA))
            /\ Piston2' = Set(OddRisingEdges(sampled'.ButtonA))
            /\ UNCHANGED <<LeftDrive, RightDrive, IntakeMotor, RampMotor,
                           FullPowerRampMotor>>
       /\ at = "wait" =>
            UNCHANGED <<LeftDrive, RightDrive, IntakeMotor, RampMotor,
                        FullPowerRampMotor, Piston1, Piston2>>]_vars

C23_Witness ==
    /\ at = "wait"
    /\ sampled.Axis3 = 100 /\ sampled.Axis2 = 0
    /\ sampled.ButtonR1 /\ sampled.ButtonR2
    /\ ~sampled.ButtonL1 /\ sampled.ButtonL2
    /\ ~sampled.ButtonX /\ ~sampled.ButtonY
    /\ LeftDrive = Spin(100) /\ RightDrive = Spin(0)
    /\ IntakeMotor = Spin(100)
    /\ RampMotor = Spin(-100)
    /\ FullPowerRampMotor = Spin(0)
    /\ risingEdgeParity /\ sampled.ButtonA /\ ~prevToggleSample
    /\ Piston1 = Set(FALSE) /\ Piston2 = Set(FALSE)

\* the device calls of one run of autonomous, in order
AutonomousCalls ==
    <<SpinCommand("LeftDrive", 50), SpinCommand("RightDrive", 50),
      StopCommand("LeftDrive"), StopCommand("RightDrive")>>

\* C24: a started autonomous routine returns.  Up to its wait it has called
\* exactly LeftDrive.spin and RightDrive.spin, forward at 50 percent, in
\* that order; when it has returned it has called exactly these and then
\* LeftDrive.stop and RightDrive.stop, in that order, so the last command
\* of each drive group is stop and no other motor and no piston was
\* commanded by it.
C24_AutonomousStopsTheDrive ==
    /\ [](/\ at = "autonomous wait" =>
               /\ issued = SubSeq(AutonomousCalls, 1, 2)
               /\ LeftDrive = Spin(50)
               /\ RightDrive = Spin(50)
          /\ at = "autonomous returned" =>
               /\ issued = AutonomousCalls
               /\ LeftDrive = Stop
               /\ RightDrive = Stop
               /\ IntakeMotor = NoCommand
               /\ RampMotor = NoCommand
               /\ FullPowerRampMotor = NoCommand
               /\ Piston1 = Set(FALSE)
               /\ Piston2 = Set(FALSE))
    /\ (at = "autonomous") ~> (at = "autonomous returned")

C24_Witness ==
    /\ at = "autonomous returned"
    /\ issued = AutonomousCalls
    /\ LeftDrive = Stop
    /\ RightDrive = Stop
    /\ currentHeight = LOW

\* C25: when both buttons of a pair are read pressed in one usercontrol
\* iteration the forward button wins: R1 with R2 commands the intake at
\* +100, L1 with L2 the ramp at +100, X with Y the full-power ramp at +100;
\* a motor is commanded in reverse only in an iteration in which its
\* reverse button is read pressed and its forward button released.
C25_ForwardButtonWins ==
    /\ at \in AfterIntake =>
         /\ (sampled.ButtonR1 /\ sampled.ButtonR2) => IntakeMotor = Spin(100)
         /\ IntakeMotor.power < 0 => (sampled.ButtonR2 /\ ~sampled.ButtonR1)
    /\ at \in AfterRamp =>
         /\ (sampled.ButtonL1 /\ sampled.ButtonL2) => RampMotor = Spin(100)
         /\ RampMotor.power < 0 => (sampled.ButtonL2 /\ ~sampled.ButtonL1)
    /\ at \in AfterFullPower =>
         /\ (sampled.ButtonX /\ sampled.ButtonY) => FullPowerRampMotor = Spin(100)
         /\ FullPowerRampMotor.power < 0 => (sampled.ButtonY /\ ~sampled.ButtonX)

C25_Witness ==
    /\ at = "wait"
    /\ sampled.ButtonR1 /\ sampled.ButtonR2
    /\ sampled.ButtonL1 /\ sampled.ButtonL2
    /\ sampled.ButtonX /\ sampled.ButtonY
    /\ IntakeMotor = Spin(100)
    /\ RampMotor = Spin(100)
    /\ FullPowerRampMotor = Spin(100)
    /\ sampled.Axis3 = 0

IsPistonCall(c) == c.cmd = "set"
\* the piston calls among the issued device calls
PistonCalls(calls) == SelectSeq(calls, IsPistonCall)

\* C26: in a usercontrol iteration that is not a rising edge of Button A
\* (read released, or read pressed after being read pressed in the previous
\* iteration) currentHeight keeps its value and neither piston is written,
\* so the iteration ends without a piston call; a piston is written, and
\* currentHeight or a piston's last command changes, only in vexcodeInit
\* and in the pneumatic section of a rising-edge iteration; every iteration
\* sets lastToggleButtonState to the Button A value it read.
C26_PistonsWrittenOnRisingEdgeOnly ==
    [][LET rising == sampled'.ButtonA /\ ~prevToggleSample
           pistonWritten ==
               Len(PistonCalls(issued')) > Len(PistonCalls(issued))
           changed ==
               \/ currentHeight' # currentHeight
               \/ Piston1' # Piston1
               \/ Piston2' # Piston2
       IN  /\ at = "pneumatic" =>
                /\ lastToggleButtonState' = sampled'.ButtonA
                /\ ~rising => /\ UNCHANGED <<currentHeight, Piston1, Piston2>>
                              /\ ~pistonWritten
                              /\ PistonCalls(issued') = <<>>
                /\ rising => pistonWritten
           /\ (pistonWritten \/ changed) =>
                \/ at = "main"
                \/ at = "pneumatic" /\ rising]_vars

C26_Witness ==
    /\ at = "wait"
    /\ sampled.ButtonA
    /\ prevToggleSample
    /\ lastToggleButtonState
    /\ currentHeight = HIGH
    /\ Len(issued) = 5
    /\ PistonCalls(issued) = <<>>

---------------------------------------------------------------------------
(* Arcade mixing on inputs within the power range *)

InRangeArcadeCall ==
    /\ call.fn = "calculateArcadeDrive"
    /\ InPowerRange(call.forwardInput)
    /\ InPowerRange(call.turnInput)

\* C27: for forward and turn both in [-100, 100] calculateArcadeDrive
\* returns, and its (leftPower, rightPower) is that of the variant that
\* clamps forward and turn to [-100, 100] before mixing; whenever the two
\* differ, forward or turn lies outside [-100, 100].
C27_ClampFirstAgreesInRange ==
    /\ (pc # "call" /\ InRangeArcadeCall) =>
         /\ pc = "return"
         /\ <<ret.leftPower, ret.rightPower>>
              = ArcadeClampingInputsFirst(call.forwardInput, call.turnInput)
    /\ (/\ Returned("calculateArcadeDrive")
        /\ <<ret.leftPower, ret.rightPower>>
             # ArcadeClampingInputsFirst(call.forwardInput, call.turnInput))
         => ~InPowerRange(call.forwardInput) \/ ~InPowerRange(call.turnInput)

C27_Witness ==
    /\ Returned("calculateArcadeDrive")
    /\ call.forwardInput = -70
    /\ call.turnInput = 60
    /\ <<ret.leftPower, ret.rightPower>> = <<-10, -100>>
    /\ ArcadeClampingInputsFirst(call.forwardInput, call.turnInput) = <<-10, -100>>

\* C28: for forward and turn both in [-100, 100] calculateArcadeDrive never
\* clips both sides: forward+turn and forward-turn are not both outside
\* [-100, 100], and leftPower is forward+turn or rightPower is
\* forward-turn.
C28_NeverClipsBothSides ==
    (Returned("calculateArcadeDrive") /\ InRangeArcadeCall) =>
        /\ \/ InPowerRange(call.forwardInput + call.turnInput)
           \/ InPowerRange(call.forwardInput - call.turnInput)
        /\ \/ ret.leftPower = call.forwardInput + call.turnInput
           \/ ret.rightPower = call.forwardInput - call.turnInput

C28_Witness ==
    /\ Returned("calculateArcadeDrive")
    /\ call.forwardInput = 100
    /\ call.turnInput = -100
    /\ ret.leftPower = 0
    /\ ret.rightPower = 100
    /\ call.forwardInput - call.turnInput = 200

===========================================================================
